---- MODULE Spec2Model ----
(***************************************************************************)
(* Entity container of haste_core (crates/haste_core/src/entities.rs):     *)
(* the field-state tree stored in one shared arena, the range allocator    *)
(* that hands out children ranges, Entity::parse and the create / update / *)
(* delete / clear handlers of EntityContainer.                             *)
(***************************************************************************)
EXTENDS Integers, Sequences, FiniteSets, TLC

VARIABLES
    entities,            \* EntityContainer.entities: slot index -> Entity
    baseline_entities,   \* EntityContainer.baseline_entities: class id -> Entity
    field_states,        \* EntityContainer.field_states: the node arena
    field_states_alloc,  \* EntityContainer.field_states_alloc: free indices
    instance_baseline,   \* the instance-baseline table handed to handle_create
    baseline_overflows,  \* the classes whose baseline bytes end too early
    strs,                \* muerta's InstanceBaseline.strs
    baseline_fetches,    \* class id -> number of fetches of its baseline bytes
    status,              \* "ok", or "panic" once the process has aborted
    ops,                 \* number of container calls made so far
    last                 \* the last call: its arguments, result and set log

vars == <<entities, baseline_entities, field_states, field_states_alloc,
          instance_baseline, baseline_overflows, strs, baseline_fetches,
          status, ops, last>>

----------------------------------------------------------------------------
(* Bounds of the model and constants of the program *)

\* number of nodes of the arena (128 << 10 in the program)
ArenaSize == 64
\* number of container calls of one run of Spec
MaxOps == 3
\* the in-order runs of GrowSpec set root paths [0] .. [MaxRoot - 1]
MaxRoot == 32
\* ... and child paths [0, 0] .. [0, MaxChild - 1]
MaxChild == 16

\* i.max(8): the least length of a first children range
MIN_CHILDREN == 8
GROWTH_FACTOR == 2

Slots == {0, 1}
Classes == {0, 1}

----------------------------------------------------------------------------
(* Option<T> *)

None == <<>>
Some(x) == <<x>>
IsSome(o) == o # <<>>
Unwrap(o) == o[1]

Max(a, b) == IF a >= b THEN a ELSE b

EmptyMap == [x \in {} |-> x]
MapInsert(m, k, v) == [x \in (DOMAIN m) \cup {k} |-> IF x = k THEN v ELSE m[x]]
MapRemove(m, k) == [x \in (DOMAIN m) \ {k} |-> m[x]]

----------------------------------------------------------------------------
(* FieldState and its arena *)

DefaultFieldState == [value |-> None, children |-> None]

\* The arena is kept as the map of its nodes that differ from
\* FieldState::default(); every other index of 0 .. ArenaSize - 1 holds the
\* default node.
NewArena == EmptyMap

NodeOf(buf, x) == IF x \in DOMAIN buf THEN buf[x] ELSE DefaultFieldState

StoreNode(buf, x, n) ==
    IF n = DefaultFieldState THEN MapRemove(buf, x) ELSE MapInsert(buf, x, n)

Range(s, e) == [start |-> s, end |-> e]
RangeLen(r) == r.end - r.start
RangeSet(r) == r.start..(r.end - 1)

----------------------------------------------------------------------------
(* dungers::rangealloc::RangeAlloc over [0, ArenaSize): the free pool is    *)
(* the set of its maximal free ranges; inside a call it is handled as the   *)
(* set of free indices, so neighbouring free ranges coalesce.               *)

RangeAllocNew == {Range(0, ArenaSize)}

\* the free indices of a pool of free ranges
FreeIndices(ranges) == UNION { RangeSet(r) : r \in ranges }

\* the end of the maximal free range that holds index e
RECURSIVE FreeEnd(_, _)
FreeEnd(free, e) == IF e \in free THEN FreeEnd(free, e + 1) ELSE e

\* the maximal free ranges of the pool
FreeRanges(free) ==
    { Range(s, FreeEnd(free, s)) : s \in { x \in free : (x - 1) \notin free } }

\* best fit; the lowest start among equally good free ranges
BestFit(fit) ==
    CHOOSE r \in fit : \A q \in fit :
        \/ RangeLen(r) < RangeLen(q)
        \/ RangeLen(r) = RangeLen(q) /\ r.start <= q.start

AllocateFrom(fit, n) ==
    IF fit = {} THEN None
    ELSE Some(Range(BestFit(fit).start, BestFit(fit).start + n))

Allocate(free, n) ==
    AllocateFrom({ r \in FreeRanges(free) : RangeLen(r) >= n }, n)

Deallocate(free, r) == free \cup (RangeSet(r) \cap (0..(ArenaSize - 1)))

----------------------------------------------------------------------------
(* FieldState::set.  The walk keeps the node it stands on as a location:    *)
(* Root for the FieldState held by the entity, or an index of the arena.    *)
(* st = [root, buf, free, cur, err, log, ubhit]; err is "ok", "alloc" (the  *)
(* allocator returned RangeAllocError), "index" (a slice index outside the  *)
(* arena: the indexing panics) or "abort" (undefined behaviour that ends    *)
(* the process).                                                            *)

Root == -1

NodeAt(st, loc) == IF loc = Root THEN st.root ELSE NodeOf(st.buf, loc)

PutNode(st, loc, n) ==
    IF loc = Root THEN [st EXCEPT !.root = n]
    ELSE [st EXCEPT !.buf = StoreNode(@, loc, n)]

\* all slots of a range hold FieldState::default()
IsClean(buf, r) == RangeSet(r) \cap DOMAIN buf = {}

\* next_view.swap_with_slice(prev_view), next_view = buf[ns .. ns + len) and
\* prev_view = buf[ps .. ps + len).  The two views are disjoint when the
\* allocator's state is sound; where they overlap the result is undefined
\* and `ub` picks which view's write lands last.
SwappedNode(buf, x, ns, ps, len, ub) ==
    IF x >= ps /\ x < ps + len /\ x >= ns /\ x < ns + len
    THEN IF ub = 0 THEN NodeOf(buf, ns + (x - ps)) ELSE NodeOf(buf, ps + (x - ns))
    ELSE IF x >= ps /\ x < ps + len THEN NodeOf(buf, ns + (x - ps))
    ELSE IF x >= ns /\ x < ns + len THEN NodeOf(buf, ps + (x - ns))
    ELSE NodeOf(buf, x)

\* SwapViews gone wrong: the old children are not moved (C5 tells them apart)
SwapViewsMovesNothing(buf, ns, ps, len, ub) == buf

SwapViews(buf, ns, ps, len, ub) ==
    [x \in { y \in 0..(ArenaSize - 1) :
               SwappedNode(buf, y, ns, ps, len, ub) # DefaultFieldState } |->
        SwappedNode(buf, x, ns, ps, len, ub)]

ViewsOverlap(ns, ps, len) == ns < ps + len /\ ps < ns + len

\* descend: node = &mut buf[w]
Descend(st, w) ==
    IF w >= ArenaSize THEN [st EXCEPT !.err = "index"]
    ELSE [st EXCEPT !.cur = w]

\* the children range of the node the walk stands on
RangeHere(st) == Unwrap(NodeAt(st, st.cur).children)

SetEvent(kind, st, i, range, prev) ==
    [kind |-> kind, i |-> i, at |-> st.cur, range |-> range, prev |-> prev,
     w |-> range.start + i, clean |-> IsClean(st.buf, range)]

\* let prev_range = mem::replace(range, next_range); alloc.deallocate(prev_range)
\* `range` points into the node at st.cur.  The swap has replaced that node
\* when it lies inside one of the views; if the node now there has no
\* children, what is read and freed is undefined: nothing is freed (ub = 0)
\* or the process ends (ub = 1).
GrowReplace(st, i, ub, next_range, here) ==
    IF here.children = None
    THEN IF ub = 1 THEN [st EXCEPT !.err = "abort", !.ubhit = TRUE]
         ELSE Descend([st EXCEPT !.ubhit = TRUE], next_range.start + i)
    ELSE Descend(
            PutNode([st EXCEPT !.free = Deallocate(@, Unwrap(here.children))],
                    st.cur, [here EXCEPT !.children = Some(next_range)]),
            next_range.start + i)

\* the swap of the views (lines 131-136)
GrowSwap(st, i, ub, next_range, range) ==
    [st EXCEPT
        !.buf = SwapViews(@, next_range.start, range.start, RangeLen(range), ub),
        !.free = @ \ RangeSet(next_range),
        !.log = Append(@, SetEvent("grow", st, i, next_range, range)),
        !.ubhit = @ \/ ViewsOverlap(next_range.start, range.start,
                                    RangeLen(range))]

GrowSwapped(st, i, ub, next_range) ==
    GrowReplace(st, i, ub, next_range, NodeAt(st, st.cur))

GrowInto(st, i, ub, got, range) ==
    IF got = None THEN [st EXCEPT !.err = "alloc"]
    ELSE GrowSwapped(GrowSwap(st, i, ub, Unwrap(got), range), i, ub,
                     Unwrap(got))

\* the branch of a node that has a children range (lines 124-147)
GrowBranch(st, i, ub, range) ==
    IF i >= RangeLen(range)
    THEN GrowInto(st, i, ub,
                  Allocate(st.free, RangeLen(range) * GROWTH_FACTOR), range)
    ELSE Descend(st, range.start + i)

SetGrowBranch(st, i, ub) == GrowBranch(st, i, ub, RangeHere(st))

\* the length of the first children range of a node, for component i
FirstLen(i) == Max(i, MIN_CHILDREN)

AllocInto(st, i, got) ==
    IF got = None THEN [st EXCEPT !.err = "alloc"]
    ELSE Descend(
            PutNode([st EXCEPT !.free = @ \ RangeSet(Unwrap(got)),
                               !.log = Append(@, SetEvent("alloc", st, i,
                                                 Unwrap(got), Unwrap(got)))],
                    st.cur,
                    [NodeAt(st, st.cur) EXCEPT !.children = got]),
            Unwrap(got).start + i)

\* the branch of a node without children (lines 148-153)
SetAllocBranch(st, i) == AllocInto(st, i, Allocate(st.free, FirstLen(i)))

SetStep(st, i, ub) ==
    IF IsSome(NodeAt(st, st.cur).children)
    THEN SetGrowBranch(st, i, ub)
    ELSE SetAllocBranch(st, i)

RECURSIVE SetWalk(_, _, _, _)
SetWalk(st, fp, k, ub) ==
    IF st.err # "ok" \/ k > Len(fp) THEN st
    ELSE SetWalk(SetStep(st, fp[k], ub), fp, k + 1, ub)

SetValue(w, fv) ==
    IF w.err # "ok" THEN w
    ELSE PutNode(w, w.cur, [NodeAt(w, w.cur) EXCEPT !.value = Some(fv)])

\* FieldState::set(fp, fv, buf, alloc) on the root held in st
FieldStateSet(st, fp, fv, ub) ==
    SetValue(SetWalk([st EXCEPT !.cur = Root], fp, 1, ub), fv)

----------------------------------------------------------------------------
(* Reading a path of a field-state tree: root.children[fp[1]].children...   *)
(* A component outside the node's children range names no child.            *)

RECURSIVE ReadFrom(_, _, _, _)
ReadFrom(node, buf, fp, k) ==
    IF k > Len(fp) THEN node.value
    ELSE IF node.children = None THEN None
    ELSE LET r == Unwrap(node.children) IN
         IF fp[k] >= RangeLen(r) \/ r.start + fp[k] >= ArenaSize THEN None
         ELSE ReadFrom(NodeOf(buf, r.start + fp[k]), buf, fp, k + 1)

Read(root, buf, fp) == ReadFrom(root, buf, fp, 1)

----------------------------------------------------------------------------
(* Entity and Entity::parse.  A record of the stream is the sequence of     *)
(* (field path, decoded value) pairs that read_field_paths and the field    *)
(* decoders yield for it, in stream order.                                  *)

Write(fp, fv) == [fp |-> fp, fv |-> fv]

\* the serializer that serializers.by_name_hash yields for a class
SerializerOf(class_id) == [class |-> class_id]

NewEntity(index, serializer) ==
    [index |-> index, serializer |-> serializer, state |-> DefaultFieldState]

RECURSIVE ParseLoop(_, _, _, _)
ParseLoop(st, writes, k, ub) ==
    IF st.err # "ok" \/ k > Len(writes) THEN st
    ELSE ParseLoop(FieldStateSet(st, writes[k].fp, writes[k].fv, ub),
                   writes, k + 1, ub)

\* self.state.set(..).unwrap(): an Err of set panics, as an index panic does
ParseResult(st) == IF st.err = "ok" THEN "ok" ELSE "panic"

ParseStart(c, entity) ==
    [root |-> entity.state, buf |-> c.field_states,
     free |-> FreeIndices(c.field_states_alloc), cur |-> Root, err |-> "ok",
     log |-> <<>>, ubhit |-> FALSE]

ParseEnd(c, entity, st) ==
    [entity |-> [entity EXCEPT !.state = st.root],
     c |-> [c EXCEPT !.field_states = st.buf,
                     !.field_states_alloc = FreeRanges(st.free)],
     result |-> ParseResult(st), err |-> st.err,
     log |-> st.log, ubhit |-> st.ubhit]

\* entity.parse(.., br, fps, fss, alloc) on container c; yields the entity,
\* the container with the arena and allocator as parse left them, the result
\* and the log of the allocations made
EntityParse(c, entity, writes, ub) ==
    ParseEnd(c, entity, ParseLoop(ParseStart(c, entity), writes, 1, ub))

----------------------------------------------------------------------------
(* EntityContainer *)

\* the container as a record of its fields and of the fetch counter of the
\* instance-baseline table
Container ==
    [entities |-> entities, baseline_entities |-> baseline_entities,
     field_states |-> field_states, field_states_alloc |-> field_states_alloc,
     baseline_fetches |-> baseline_fetches]

NewContainer ==
    [entities |-> EmptyMap, baseline_entities |-> EmptyMap,
     field_states |-> NewArena, field_states_alloc |-> RangeAllocNew,
     baseline_fetches |-> [k \in Classes |-> 0]]

\* CloneCached gone wrong: the clone keeps the cached entity's index (C3
\* tells them apart)
CloneCachedKeepsIndex(cached, index) == cached

\* Entry::Occupied: clone the cached entity and override its index
CloneCached(cached, index) == [cached EXCEPT !.index = index]

\* ve.insert(entity).clone()
CacheBaseline(p, class_id) ==
    IF p.result # "ok" THEN p
    ELSE [p EXCEPT !.c.baseline_entities = MapInsert(@, class_id, p.entity)]

\* instance_baseline.by_id_unchecked(class_id)
FetchBaseline(c, class_id) == [c EXCEPT !.baseline_fetches[class_id] = @ + 1]

\* IsOverflowed gone wrong: the transient reader is never asked (C19 tells
\* them apart)
IsOverflowedNeverAsked(p, class_id) == p

\* baseline_br.is_overflowed()?: the transient reader has run past the end of
\* the baseline bytes, and the error is returned
IsOverflowed(p, class_id) ==
    IF p.result = "ok" /\ class_id \in baseline_overflows
    THEN [p EXCEPT !.result = "err", !.err = "bitreader"]
    ELSE p

\* Entry::Vacant: parse the baseline bytes of the class into a new entity and
\* cache it
ParseBaseline(c, index, class_id, ub) ==
    CacheBaseline(
        IsOverflowed(
            EntityParse(FetchBaseline(c, class_id),
                        NewEntity(index, SerializerOf(class_id)),
                        instance_baseline[class_id], ub),
            class_id),
        class_id)

\* FromCache gone wrong: the cache is not consulted (C9 tells them apart)
FromCacheParsesAgain(c, index, class_id) == ParseBaseline(c, index, class_id, 0)

\* Entry::Occupied(oe): the entity is a clone of the cached one
FromCache(c, index, class_id) ==
    [entity |-> CloneCached(c.baseline_entities[class_id], index),
     c |-> c, result |-> "ok", err |-> "ok", log |-> <<>>, ubhit |-> FALSE]

\* self.entities.insert(index, entity)
InsertEntity(b, p, index) ==
    IF p.result # "ok"
    THEN [p EXCEPT !.log = b.log \o @, !.ubhit = b.ubhit \/ @]
    ELSE [p EXCEPT !.log = b.log \o @, !.ubhit = b.ubhit \/ @,
                   !.c.entities = MapInsert(@, index, p.entity)]

ParseDelta(b, index, delta, ub) ==
    IF b.result # "ok" THEN b
    ELSE InsertEntity(b, EntityParse(b.c, b.entity, delta, ub), index)

\* handle_create(index, .., br, ..) where br yields class_id and then delta
HandleCreate(c, index, class_id, delta, ub) ==
    ParseDelta(IF class_id \in DOMAIN c.baseline_entities
               THEN FromCache(c, index, class_id)
               ELSE ParseBaseline(c, index, class_id, ub),
               index, delta, ub)

UpdateEntity(p, index) == [p EXCEPT !.c.entities = MapInsert(@, index, p.entity)]

\* handle_update_unchecked(index, .., br); the slot is populated
HandleUpdate(c, index, delta, ub) ==
    UpdateEntity(EntityParse(c, c.entities[index], delta, ub), index)

\* HandleDelete gone wrong: every slot is emptied (C11 tells them apart)
HandleDeleteRemovesAll(c, index) == [c EXCEPT !.entities = EmptyMap]

\* handle_delete_unchecked(index); the slot is populated
HandleDelete(c, index) == [c EXCEPT !.entities = MapRemove(@, index)]

\* ... and the entity it returns: self.entities.remove(&index)
RemovedEntity(c, index) == c.entities[index]

\* Clear gone wrong: the baseline cache is not emptied (C8 tells them apart)
ClearKeepsBaselines(c) == [c EXCEPT !.entities = EmptyMap]

\* clear()
Clear(c) == [c EXCEPT !.entities = EmptyMap, !.baseline_entities = EmptyMap]

\* is_empty(), get(index), get_baseline(class_id)
IsEmpty(c) == DOMAIN c.entities = {}
Get(c, index) ==
    IF index \in DOMAIN c.entities THEN Some(c.entities[index]) ELSE None
GetBaseline(c, class_id) ==
    IF class_id \in DOMAIN c.baseline_entities
    THEN Some(c.baseline_entities[class_id]) ELSE None

----------------------------------------------------------------------------
(* Inputs *)

\* the records of the stream: no write, one write, two writes of one path
\* (the later one wins), a write past a first children range, nested writes
Deltas ==
    { <<>>,
      <<Write(<<0>>, 75)>>,
      <<Write(<<0>>, 50), Write(<<0>>, 75)>>,
      <<Write(<<8>>, 75)>>,
      <<Write(<<0, 0>>, 50)>>,
      <<Write(<<0, 8>>, 50)>> }

\* the baseline payloads of the instance-baseline table
Blobs == {<<>>, <<Write(<<0>>, 100)>>}

\* the paths the properties read
ProbePaths ==
    { <<a>> : a \in {0, 1, 7, 8, 9} } \cup
    { <<a, b>> : a \in {0, 1, 8}, b \in {0, 1, 7, 8, 9} }

----------------------------------------------------------------------------
(* The state machine *)

NoCall ==
    [op |-> "new", slot |-> -1, class |-> -1, delta |-> <<>>,
     result |-> "ok", err |-> "ok", log |-> <<>>, cached |-> FALSE]

Init ==
    /\ entities = NewContainer.entities
    /\ baseline_entities = NewContainer.baseline_entities
    /\ field_states = NewContainer.field_states
    /\ field_states_alloc = NewContainer.field_states_alloc
    /\ baseline_fetches = NewContainer.baseline_fetches
    /\ instance_baseline \in { t \in [Classes -> Blobs] : t[0] # <<>> }
    /\ baseline_overflows = {}
    /\ strs = <<>>
    /\ status = "ok"
    /\ ops = 0
    /\ last = NoCall

\* the container after a call, and the call's record
Becomes(c, result, call) ==
    /\ entities' = c.entities
    /\ baseline_entities' = c.baseline_entities
    /\ field_states' = c.field_states
    /\ field_states_alloc' = c.field_states_alloc
    /\ baseline_fetches' = c.baseline_fetches
    /\ status' = IF result = "panic" THEN "panic" ELSE status
    /\ ops' = ops + 1
    /\ last' = call
    /\ UNCHANGED <<instance_baseline, baseline_overflows, strs>>

\* the outcomes of undefined behaviour a call has to choose from
Oracles(ubhit) == IF ubhit THEN {0, 1} ELSE {0}

Create(index, class_id, delta) ==
    /\ status = "ok"
    /\ \E r0 \in {HandleCreate(Container, index, class_id, delta, 0)} :
       \E ub \in Oracles(r0.ubhit) :
       \E r \in {IF ub = 0 THEN r0
                  ELSE HandleCreate(Container, index, class_id, delta, ub)} :
        Becomes(r.c, r.result,
                [op |-> "create", slot |-> index, class |-> class_id,
                 delta |-> delta, result |-> r.result, err |-> r.err,
                 log |-> r.log,
                 cached |-> class_id \in DOMAIN baseline_entities])

Update(index, delta) ==
    /\ status = "ok"
    /\ index \in DOMAIN entities
    /\ \E r0 \in {HandleUpdate(Container, index, delta, 0)} :
       \E ub \in Oracles(r0.ubhit) :
       \E r \in {IF ub = 0 THEN r0
                  ELSE HandleUpdate(Container, index, delta, ub)} :
        Becomes(r.c, r.result,
                [op |-> "update", slot |-> index, class |-> -1,
                 delta |-> delta, result |-> r.result, err |-> r.err,
                 log |-> r.log, cached |-> FALSE])

Delete(index) ==
    /\ status = "ok"
    /\ index \in DOMAIN entities
    /\ Becomes(HandleDelete(Container, index), "ok",
               [op |-> "delete", slot |-> index, class |-> -1, delta |-> <<>>,
                result |-> "ok", err |-> "ok", log |-> <<>>, cached |-> FALSE,
                ret |-> RemovedEntity(Container, index)])

ClearAll ==
    /\ status = "ok"
    /\ Becomes(Clear(Container), "ok", [NoCall EXCEPT !.op = "clear"])

\* the calls of one run, MaxOps of them at most
CreateCall == ops < MaxOps /\ \E i \in Slots, k \in Classes, d \in Deltas : Create(i, k, d)
UpdateCall == ops < MaxOps /\ \E i \in Slots, d \in Deltas : Update(i, d)
DeleteCall == ops < MaxOps /\ \E i \in Slots : Delete(i)
ClearCall == ops < MaxOps /\ ClearAll

Next == CreateCall \/ UpdateCall \/ DeleteCall \/ ClearCall

Spec == Init /\ [][Next]_vars

\* one replay: the container is never cleared
ReplayNext == CreateCall \/ UpdateCall \/ DeleteCall

ReplaySpec == Init /\ [][ReplayNext]_vars

----------------------------------------------------------------------------
(* One packet-entities message: its records carry a DeltaHeader, and the    *)
(* caller hands CREATE, UPDATE and DELETE records to the three handlers.    *)
(* A LEAVE record reaches no handler: the container is left as it is.       *)

PacketDeltas == { <<>>, <<Write(<<0>>, 75)>>, <<Write(<<8>>, 75)>> }

Leave(index) ==
    /\ status = "ok"
    /\ index \in DOMAIN entities
    /\ Becomes(Container, "ok", [NoCall EXCEPT !.op = "leave", !.slot = index])

CreateRecord ==
    ops < MaxOps /\ \E i \in Slots, k \in Classes, d \in PacketDeltas : Create(i, k, d)
UpdateRecord == ops < MaxOps /\ \E i \in Slots, d \in PacketDeltas : Update(i, d)
DeleteRecord == ops < MaxOps /\ \E i \in Slots : Delete(i)
LeaveRecord == ops < MaxOps /\ \E i \in Slots : Leave(i)

PacketNext == CreateRecord \/ UpdateRecord \/ DeleteRecord \/ LeaveRecord

PacketSpec == Init /\ [][PacketNext]_vars

----------------------------------------------------------------------------
(* Replays whose instance-baseline table holds truncated entries: the       *)
(* transient reader of such a class has overflowed once its baseline is     *)
(* parsed.                                                                  *)

OverflowInit ==
    /\ entities = NewContainer.entities
    /\ baseline_entities = NewContainer.baseline_entities
    /\ field_states = NewContainer.field_states
    /\ field_states_alloc = NewContainer.field_states_alloc
    /\ baseline_fetches = NewContainer.baseline_fetches
    /\ instance_baseline \in { t \in [Classes -> Blobs] : t[0] # <<>> }
    /\ baseline_overflows \in SUBSET Classes
    /\ strs = <<>>
    /\ status = "ok"
    /\ ops = 0
    /\ last = NoCall

OverflowNext == CreateRecord \/ UpdateRecord \/ DeleteRecord

OverflowSpec == OverflowInit /\ [][OverflowNext]_vars

----------------------------------------------------------------------------
(* One entity whose tree grows in order: updates write the root paths      *)
(* [0], [1], .. and the child paths [0, 0], [0, 1], .. one at a time, the   *)
(* two runs interleaved in any way.  It starts right after the CREATE of    *)
(* slot 0 with a class whose baseline and delta write nothing.              *)

GrowSlot == CHOOSE i \in Slots : \A j \in Slots : i <= j
GrowClass == CHOOSE k \in Classes : \A j \in Classes : k >= j
GrowTable == [k \in Classes |-> IF k = GrowClass THEN <<>> ELSE <<Write(<<0>>, 100)>>]

RootValue(k) == 100 + k
ChildValue(m) == 200 + m

\* what a reader finds at path fp of the entity in slot index
ReadEntity(index, fp) == Read(entities[index].state, field_states, fp)

\* the number of root paths, and of child paths, written so far
RootCount == Cardinality({ k \in 0..(MaxRoot - 1) : IsSome(ReadEntity(GrowSlot, <<k>>)) })
ChildCount == Cardinality({ m \in 0..(MaxChild - 1) : IsSome(ReadEntity(GrowSlot, <<0, m>>)) })

GrowCreated == HandleCreate(NewContainer, GrowSlot, GrowClass, <<>>, 0)

GrowInit ==
    /\ instance_baseline = GrowTable
    /\ baseline_overflows = {}
    /\ strs = <<>>
    /\ entities = GrowCreated.c.entities
    /\ baseline_entities = GrowCreated.c.baseline_entities
    /\ field_states = GrowCreated.c.field_states
    /\ field_states_alloc = GrowCreated.c.field_states_alloc
    /\ baseline_fetches = GrowCreated.c.baseline_fetches
    /\ status = "ok"
    /\ ops = 1
    /\ last = [op |-> "create", slot |-> GrowSlot, class |-> GrowClass,
               delta |-> <<>>, result |-> "ok", err |-> "ok", log |-> <<>>,
               cached |-> FALSE]

GrowRoot ==
    /\ RootCount < MaxRoot
    /\ Update(GrowSlot, <<Write(<<RootCount>>, RootValue(RootCount))>>)

GrowChild ==
    /\ ChildCount < MaxChild
    /\ Update(GrowSlot, <<Write(<<0, ChildCount>>, ChildValue(ChildCount))>>)

GrowNext == GrowRoot \/ GrowChild

GrowSpec == GrowInit /\ [][GrowNext]_vars

----------------------------------------------------------------------------
(* One entity, created as in GrowSpec, and updates that each write one path *)
(* in any order: near and far components, at the root and one level down.   *)

WalkPaths == { <<0>>, <<8>>, <<16>>, <<0, 0>>, <<0, 8>>, <<0, 16>> }
WalkValues == {50, 75}

WalkNext ==
    /\ ops < MaxOps
    /\ \E fp \in WalkPaths, fv \in WalkValues :
          Update(GrowSlot, <<Write(fp, fv)>>)

WalkSpec == GrowInit /\ [][WalkNext]_vars

----------------------------------------------------------------------------
(* Schema resolution of Entity::parse.  A record of the stream is here the  *)
(* sequence of (field path, payload) pairs as read_field_paths and the bit  *)
(* reader yield them; the field that a path resolves to decodes the         *)
(* payload.                                                                 *)

\* a FlattenedSerializerField: its children are numbered from 0
FlattenedSerializerField(var_name, is_dynamic_array, children) ==
    [var_name |-> var_name, is_dynamic_array |-> is_dynamic_array,
     children |-> children]

LeafField(var_name) == FlattenedSerializerField(var_name, FALSE, <<>>)

\* the fields of a class: a dynamic array `items` of {id, level}, a plain
\* field `health`, a fixed struct `pos` of {x, y} and a dynamic array `tags`
\* of plain elements
SchemaFields ==
    << FlattenedSerializerField("items", TRUE,
           << FlattenedSerializerField("item", FALSE,
                  << LeafField("id"), LeafField("level") >>) >>),
       LeafField("health"),
       FlattenedSerializerField("pos", FALSE, << LeafField("x"), LeafField("y") >>),
       FlattenedSerializerField("tags", TRUE, << LeafField("tag") >>) >>

\* the flattened serializer as the root of its fields
FieldsOf(serializer) ==
    FlattenedSerializerField("", FALSE, SchemaFields)

\* field.get_child_unchecked(i)
GetChild(field, i) == field.children[i + 1]

\* ResolveStep gone wrong: the first child is taken whatever the field is
\* (C20 tells them apart)
ResolveStepFirstChild(field, component) == GetChild(field, 0)

\* one turn of `for i in 1..=fp.last()`
ResolveStep(field, component) ==
    IF field.is_dynamic_array
    THEN GetChild(field, 0)
    ELSE GetChild(field, component)

RECURSIVE ResolveFrom(_, _, _)
ResolveFrom(field, fp, k) ==
    IF k > Len(fp) THEN field
    ELSE ResolveFrom(ResolveStep(field, fp[k]), fp, k + 1)

\* the field of path fp: serializer.get_child_unchecked(fp[0]), then the loop
ResolveField(serializer, fp) ==
    ResolveFrom(GetChild(FieldsOf(serializer), fp[1]), fp, 2)

\* field.metadata.decoder.decode(ctx, br): the FieldValue that the decoder of
\* the field makes of the payload
Decode(field, payload) == [decoder |-> field.var_name, payload |-> payload]

\* the (field path, decoded value) pairs of a record
DecodeRecord(serializer, record) ==
    [k \in 1..Len(record) |->
        Write(record[k].fp,
              Decode(ResolveField(serializer, record[k].fp), record[k].payload))]

Payload(fp, payload) == [fp |-> fp, payload |-> payload]

\* the paths of the stream: each names a field of the schema
SchemaPaths ==
    { <<0>>, <<1>>, <<2, 0>>, <<2, 1>>, <<3>>, <<3, 0>>, <<3, 5>>,
      <<0, 0, 0>>, <<0, 3, 0>>, <<0, 3, 1>>, <<0, 1, 1>> }

SchemaPayloads == {7, 42}

\* an UPDATE record of one path for the entity in slot GrowSlot
SchemaUpdate ==
    /\ ops < MaxOps
    /\ \E fp \in SchemaPaths, payload \in SchemaPayloads :
          Update(GrowSlot,
                 DecodeRecord(entities[GrowSlot].serializer,
                              <<Payload(fp, payload)>>))

\* ... and one of two paths
SchemaUpdatePair ==
    /\ ops < MaxOps
    /\ \E fp \in {<<0, 3, 0>>, <<2, 1>>}, fq \in {<<0, 3, 1>>, <<0, 3, 0>>} :
          Update(GrowSlot,
                 DecodeRecord(entities[GrowSlot].serializer,
                              <<Payload(fp, 7), Payload(fq, 42)>>))

SchemaNext == SchemaUpdate \/ SchemaUpdatePair

SchemaSpec == GrowInit /\ [][SchemaNext]_vars

----------------------------------------------------------------------------
(* muerta: InstanceBaseline.  A string-table item carries its key `string` *)
(* (an optional sequence of characters) and its optional `user_data`; the   *)
(* items are listed in the order in which string_table.items yields them.   *)

StringTableItem(string, user_data) == [string |-> string, user_data |-> user_data]

DecimalDigits == <<"0", "1", "2", "3", "4", "5", "6", "7", "8", "9">>

\* the value of a character as a decimal digit, if it is one
DigitOf(ch) ==
    IF \E d \in 1..Len(DecimalDigits) : DecimalDigits[d] = ch
    THEN Some((CHOOSE d \in 1..Len(DecimalDigits) : DecimalDigits[d] = ch) - 1)
    ELSE None

RECURSIVE ParseDigits(_, _, _, _)
ParseDigits(s, k, sign, acc) ==
    IF k > Len(s) THEN Some(acc)
    ELSE IF DigitOf(s[k]) = None THEN None
    ELSE ParseDigits(s, k + 1, sign, acc * 10 + sign * Unwrap(DigitOf(s[k])))

\* string.parse::<i32>(): an optional sign and at least one digit, nothing
\* else; None stands for a ParseIntError (keys are too short to overflow)
ParseI32(s) ==
    IF s = <<>> THEN None
    ELSE IF s[1] \in {"+", "-"}
    THEN IF Len(s) = 1 THEN None
         ELSE ParseDigits(s, 2, IF s[1] = "-" THEN -1 ELSE 1, 0)
    ELSE ParseDigits(s, 1, 1, 0)

\* if self.strs.len() < classes { self.strs.resize(classes, None) }
Resize(v, classes) ==
    IF Len(v) < classes THEN v \o [k \in 1..(classes - Len(v)) |-> None] ELSE v

\* StoreData gone wrong: an item without user_data leaves the entry as it is
\* (C21 tells them apart)
StoreDataKeepsOnNone(v, class_id, user_data) ==
    IF user_data = None THEN v ELSE [v EXCEPT ![class_id + 1] = user_data]

\* self.strs[class_id as usize] = item.user_data.clone()
StoreData(v, class_id, user_data) == [v EXCEPT ![class_id + 1] = user_data]

\* one turn of the loop over the items: expect() and the index panic, the
\* ? returns the ParseIntError; a negative id is far out of range as usize
UpdateItem(v, item) ==
    IF item.string = None THEN [strs |-> v, result |-> "panic"]
    ELSE IF ParseI32(Unwrap(item.string)) = None
    THEN [strs |-> v, result |-> "ParseIntError"]
    ELSE IF Unwrap(ParseI32(Unwrap(item.string))) \notin 0..(Len(v) - 1)
    THEN [strs |-> v, result |-> "panic"]
    ELSE [strs |-> StoreData(v, Unwrap(ParseI32(Unwrap(item.string))),
                             item.user_data),
          result |-> "ok"]

RECURSIVE UpdateLoop(_, _, _)
UpdateLoop(st, items, k) ==
    IF st.result # "ok" \/ k > Len(items) THEN st
    ELSE UpdateLoop(UpdateItem(st.strs, items[k]), items, k + 1)

\* InstanceBaseline::update(string_table, classes)
InstanceUpdate(v, items, classes) ==
    UpdateLoop([strs |-> Resize(v, classes), result |-> "ok"], items, 1)

\* InstanceBaseline::get_data(class_id), class_id within the table
GetData(v, class_id) == v[class_id + 1]

\* the items of the tables: keys of at most four characters
TableItems ==
    { StringTableItem(Some(<<"0">>), Some(<<7>>)),
      StringTableItem(Some(<<"1">>), Some(<<8, 9>>)),
      StringTableItem(Some(<<"1">>), None),
      StringTableItem(Some(<<"0", "2">>), Some(<<>>)),
      StringTableItem(Some(<<"+", "1">>), Some(<<7>>)),
      StringTableItem(Some(<<"-", "1">>), Some(<<7>>)),
      StringTableItem(Some(<<"7">>), Some(<<7>>)),
      StringTableItem(Some(<<"1", "x">>), Some(<<7>>)),
      StringTableItem(Some(<<>>), None),
      StringTableItem(None, Some(<<7>>)) }

StringTables ==
    {<<>>} \cup { <<a>> : a \in TableItems }
           \cup { <<a, b>> : a \in TableItems, b \in TableItems }

ClassCounts == {0, 2, 3}

InstanceInit ==
    /\ entities = NewContainer.entities
    /\ baseline_entities = NewContainer.baseline_entities
    /\ field_states = NewContainer.field_states
    /\ field_states_alloc = NewContainer.field_states_alloc
    /\ baseline_fetches = NewContainer.baseline_fetches
    /\ instance_baseline = GrowTable
    /\ baseline_overflows = {}
    /\ strs = <<>>
    /\ status = "ok"
    /\ ops = 0
    /\ last = NoCall

InstanceUpdateCall ==
    /\ ops < MaxOps
    /\ status = "ok"
    /\ \E items \in StringTables, classes \in ClassCounts :
       \E r \in {InstanceUpdate(strs, items, classes)} :
          /\ strs' = r.strs
          /\ status' = IF r.result = "panic" THEN "panic" ELSE status
          /\ last' = [op |-> "instance_update", items |-> items,
                      classes |-> classes, result |-> r.result]
    /\ ops' = ops + 1
    /\ UNCHANGED <<entities, baseline_entities, field_states,
                   field_states_alloc, instance_baseline, baseline_overflows,
                   baseline_fetches>>

InstanceSpec == InstanceInit /\ [][InstanceUpdateCall]_vars

----------------------------------------------------------------------------
(* public/const.h (adjusted), and the handle helpers *)

MAX_EDICT_BITS == 14
NUM_NETWORKED_EHANDLE_SERIAL_NUMBER_BITS == 10

RECURSIVE Pow2(_)
Pow2(n) == IF n = 0 THEN 1 ELSE 2 * Pow2(n - 1)

\* x << n on u32, for the operands of this file (all below 1 << 24)
ShiftLeft(x, n) == x * Pow2(n)

RECURSIVE BitAnd(_, _)
BitAnd(a, b) ==
    IF a = 0 \/ b = 0 THEN 0
    ELSE ((a % 2) * (b % 2)) + (2 * BitAnd(a \div 2, b \div 2))

RECURSIVE BitOr(_, _)
BitOr(a, b) ==
    IF a = 0 THEN b
    ELSE IF b = 0 THEN a
    ELSE Max(a % 2, b % 2) + (2 * BitOr(a \div 2, b \div 2))

MAX_EDICTS == ShiftLeft(1, MAX_EDICT_BITS)
NUM_ENT_ENTRY_BITS == MAX_EDICT_BITS + 1
NUM_SERIAL_NUM_BITS == 32 - NUM_ENT_ENTRY_BITS
NUM_NETWORKED_EHANDLE_BITS ==
    MAX_EDICT_BITS + NUM_NETWORKED_EHANDLE_SERIAL_NUMBER_BITS
INVALID_NETWORKED_EHANDLE_VALUE ==
    ShiftLeft(1, NUM_NETWORKED_EHANDLE_BITS) - 1

\* is_handle_valid(handle)
IsHandleValid(handle) == handle # INVALID_NETWORKED_EHANDLE_VALUE

\* HandleToIndex gone wrong: the mask has the NUM_ENT_ENTRY_BITS of a slot
\* index in the stream (C13 tells them apart)
HandleToIndexEntryBits(handle) ==
    BitAnd(handle, ShiftLeft(1, NUM_ENT_ENTRY_BITS) - 1)

\* handle_to_index(handle)
HandleToIndex(handle) == BitAnd(handle, ShiftLeft(1, MAX_EDICT_BITS) - 1)

\* the handle of slot index i and serial number s: i | (s << 14)
EncodeHandle(i, s) == BitOr(i, ShiftLeft(s, MAX_EDICT_BITS))

HandleIndices == {0, 1, 2, 8191, 8192, 16382, 16383}
HandleSerials == {0, 1, 2, 511, 512, 1022, 1023}
HandleSamples ==
    { EncodeHandle(i, s) : i \in HandleIndices, s \in HandleSerials }
        \cup {16777214, 16777215}

HandleToIndexCall ==
    /\ \E i \in HandleIndices, s \in HandleSerials :
          last' = [op |-> "handle_to_index", index |-> i, serial |-> s,
                   handle |-> EncodeHandle(i, s),
                   ret |-> HandleToIndex(EncodeHandle(i, s))]
    /\ UNCHANGED <<entities, baseline_entities, field_states,
                   field_states_alloc, instance_baseline, baseline_overflows,
                   strs, baseline_fetches,
                   status, ops>>

IsHandleValidCall ==
    /\ \E h \in HandleSamples :
          last' = [op |-> "is_handle_valid", handle |-> h,
                   ret |-> IsHandleValid(h)]
    /\ UNCHANGED <<entities, baseline_entities, field_states,
                   field_states_alloc, instance_baseline, baseline_overflows,
                   strs, baseline_fetches,
                   status, ops>>

HandleNext == HandleToIndexCall \/ IsHandleValidCall

HandleSpec == Init /\ [][HandleNext]_vars

----------------------------------------------------------------------------
(* The bit reader of a call, over a sequence of bits, and what              *)
(* handle_create reads from it before the field-path block.                 *)

BitReader(data) == [data |-> data, pos |-> 0, overflowed |-> FALSE]

\* the k-th next bit; past the end of the data a read yields 0
BitAt(br, k) ==
    IF br.pos + k <= Len(br.data) THEN br.data[br.pos + k] ELSE 0

RECURSIVE BitsValue(_, _, _, _)
BitsValue(br, n, k, acc) ==
    IF k > n THEN acc ELSE BitsValue(br, n, k + 1, 2 * acc + BitAt(br, k))

\* br.read_ubit64(n)
ReadUBit(br, n) ==
    [value |-> BitsValue(br, n, 1, 0),
     br |-> [br EXCEPT !.pos = @ + n,
                       !.overflowed = @ \/ br.pos + n > Len(br.data)]]

\* br.read_uvarint32(): up to five bytes, seven bits of the value in each,
\* the lowest first; the top bit of a byte says that another follows.  The
\* u32 read is kept as its groups of seven bits, lowest first (the fifth
\* byte has room for four bits only).
VarintStep(byte, count, acc) ==
    [groups |-> Append(acc.groups,
                       IF count = 4 THEN byte.value % 16 ELSE byte.value % 128),
     br |-> byte.br, bytes |-> count + 1,
     more |-> byte.value >= 128 /\ count + 1 < 5]

RECURSIVE VarintLoop(_)
VarintLoop(acc) ==
    IF ~acc.more THEN acc
    ELSE VarintLoop(VarintStep(ReadUBit(acc.br, 8), acc.bytes, acc))

ReadUVarint32(br) ==
    VarintLoop([groups |-> <<>>, br |-> br, bytes |-> 0, more |-> TRUE])

HeaderEnd(class, serial, unknown) ==
    [class_id |-> class.value, serial |-> serial.value,
     unknown |-> unknown.groups, varint_bytes |-> unknown.bytes,
     br |-> unknown.br]

HeaderUnknown(class, serial) ==
    HeaderEnd(class, serial, ReadUVarint32(serial.br))

\* HeaderSerial gone wrong: the serial is read in the ten bits that a
\* networked handle gives it (C12 tells them apart)
HeaderSerialOfHandle(class) ==
    HeaderUnknown(class,
                  ReadUBit(class.br, NUM_NETWORKED_EHANDLE_SERIAL_NUMBER_BITS))

HeaderSerial(class) ==
    HeaderUnknown(class, ReadUBit(class.br, NUM_SERIAL_NUM_BITS))

\* class_id, _serial and _unknown of handle_create; `bits` is
\* entity_classes.bits
CreateHeader(br, bits) == HeaderSerial(ReadUBit(br, bits))

\* The streams: a CREATE header laid out with a serial of `width` bits, and
\* the first bits of a field-path block behind it.
RECURSIVE WriteUBit(_, _)
WriteUBit(value, n) ==
    IF n = 0 THEN <<>>
    ELSE Append(WriteUBit(value \div 2, n - 1), value % 2)

RECURSIVE WriteUVarint32(_)
WriteUVarint32(value) ==
    IF value < 128 THEN WriteUBit(value, 8)
    ELSE WriteUBit(128 + (value % 128), 8) \o WriteUVarint32(value \div 128)

\* the groups of seven bits of a value, lowest first
RECURSIVE Groups(_)
Groups(value) ==
    IF value < 128 THEN <<value>>
    ELSE <<value % 128>> \o Groups(value \div 128)

WriteHeader(bits, width, class_id, serial, unknown) ==
    WriteUBit(class_id, bits) \o WriteUBit(serial, width)
        \o WriteUVarint32(unknown)

FieldPathBlock == <<1, 0, 1, 1, 0, 0, 1, 0, 1, 1, 1, 0, 0, 0, 1, 0>>

ClassBits == {1, 4, 9}
ClassSamples == {0, 1, 11, 511}
SerialLayouts == {10, 17}
SerialSamples == {0, 1, 682, 1023, 1024, 131071}
UnknownSamples == {0, 1, 127, 128, 300, 16384}

HeaderCall(bits, width, class_id, serial, unknown, r) ==
    [op |-> "create_header", bits |-> bits, layout |-> width,
     written |-> [class_id |-> class_id, serial |-> serial,
                  unknown |-> unknown],
     header_len |-> Len(WriteHeader(bits, width, class_id, serial, unknown)),
     class_id |-> r.class_id, serial |-> r.serial, unknown |-> r.unknown,
     varint_bytes |-> r.varint_bytes, pos |-> r.br.pos,
     overflowed |-> r.br.overflowed]

\* one call: the reader is borrowed for it and read from its start
ReadCreateHeader ==
    /\ last = NoCall
    /\ \E bits \in ClassBits, width \in SerialLayouts, class_id \in ClassSamples,
          serial \in SerialSamples, unknown \in UnknownSamples :
          /\ class_id < Pow2(bits)
          /\ serial < Pow2(width)
          /\ last' = HeaderCall(bits, width, class_id, serial, unknown,
                  CreateHeader(
                      BitReader(WriteHeader(bits, width, class_id, serial, unknown)
                                    \o FieldPathBlock),
                      bits))
    /\ UNCHANGED <<entities, baseline_entities, field_states,
                   field_states_alloc, instance_baseline, baseline_overflows,
                   strs, baseline_fetches,
                   status, ops>>

HeaderSpec == Init /\ [][ReadCreateHeader]_vars

----------------------------------------------------------------------------
(* What the properties compare against *)

\* the positions of record `writes` that write path fp
WritesOf(writes, fp) == { k \in 1..Len(writes) : writes[k].fp = fp }

LastOf(writes, at) ==
    IF at = {} THEN None
    ELSE Some(writes[CHOOSE k \in at : \A j \in at : k >= j].fv)

\* the value that the last write of path fp in the record leaves, if any
LastWrite(writes, fp) == LastOf(writes, WritesOf(writes, fp))

\* baseline B with delta D on top
Overlay(baseline, delta, fp) ==
    IF IsSome(LastWrite(delta, fp)) THEN LastWrite(delta, fp)
    ELSE LastWrite(baseline, fp)

ReadBaseline(class_id, fp) ==
    Read(baseline_entities[class_id].state, field_states, fp)

LastIsOk(op) == last.op = op /\ last.result = "ok"

----------------------------------------------------------------------------
(* C1..C10 *)

\* C1: right after a successful CREATE, a path of the new entity reads the
\* delta's value if the delta wrote it, else the baseline's value if the
\* class baseline wrote it, else "not set".
C1_CreateReadsBaselineUnderDelta ==
    LastIsOk("create") =>
        \A fp \in ProbePaths :
            ReadEntity(last.slot, fp) =
                Overlay(instance_baseline[last.class], last.delta, fp)

\* C2: the cached baseline entity of a class reads, at every path, what the
\* baseline bytes of the class wrote there, whatever calls have been made.
C2_CachedBaselinePristine ==
    \A k \in DOMAIN baseline_entities : \A fp \in ProbePaths :
        ReadBaseline(k, fp) = LastWrite(instance_baseline[k], fp)

\* C3: a successful CREATE of slot i with class c leaves in slot i an entity
\* with index i and the serializer of class c (also over a prior occupant and
\* from the cache), and a slot keeps its entity, index and serializer through
\* every call but a delete of it, a later CREATE of it, or clear.
C3_Created ==
    LastIsOk("create")' =>
        /\ IsSome(Get(Container, last.slot))'
        /\ entities'[last'.slot].index = last'.slot
        /\ entities'[last'.slot].serializer = SerializerOf(last'.class)

C3_Replaced(i) ==
    \/ last'.op = "clear"
    \/ last'.op = "delete" /\ last'.slot = i
    \/ LastIsOk("create")' /\ last'.slot = i

C3_Kept ==
    \A i \in DOMAIN entities :
        ~C3_Replaced(i) =>
            /\ i \in DOMAIN entities'
            /\ entities'[i].index = entities[i].index
            /\ entities'[i].serializer = entities[i].serializer

C3_CreateFillsSlot == [][C3_Created /\ C3_Kept]_vars

\* a CREATE from the cache over an occupied slot
C3_Witness ==
    /\ LastIsOk("create") /\ last.cached
    /\ ops = 2 /\ Cardinality(DOMAIN entities) = 1

\* C4: when set gives a node its first children range for a component
\* k >= 8, the range has length >= k + 1 and holds the slot start + k.
C4_FirstRangeHoldsComponent ==
    \A n \in 1..Len(last.log) :
        (last.log[n].kind = "alloc" /\ last.log[n].i >= MIN_CHILDREN) =>
            /\ RangeLen(last.log[n].range) >= last.log[n].i + 1
            /\ last.log[n].w < last.log[n].range.end

\* C5: a growth keeps every value readable below the node at its path, leaves
\* the node with one larger children range and frees the old range; writing
\* [0] .. [31] in order ends with a root range of length >= 32 and all values
\* set, and [0, 0] .. [0, 15] with a child range of length >= 16 that holds
\* the first value in slot 0 and the last in slot 15.
GrowProbe ==
    { <<k>> : k \in 0..MaxRoot } \cup { <<0, m>> : m \in 0..MaxChild }

ReadEntityNext(index, fp) == Read(entities'[index].state, field_states', fp)

NodeNext(at) ==
    IF at = Root THEN entities'[last'.slot].state ELSE NodeOf(field_states', at)

C5_Grown(ev) ==
    ev.kind = "grow" =>
        /\ NodeNext(ev.at).children = Some(ev.range)
        /\ RangeLen(ev.range) > RangeLen(ev.prev)
        /\ RangeSet(ev.prev) \subseteq FreeIndices(field_states_alloc')

C5_Step ==
    LastIsOk("update")' =>
        /\ \A n \in 1..Len(last'.log) : C5_Grown(last'.log[n])
        /\ \A fp \in GrowProbe :
              ReadEntityNext(last'.slot, fp) =
                  IF IsSome(LastWrite(last'.delta, fp))
                  THEN LastWrite(last'.delta, fp)
                  ELSE ReadEntity(last'.slot, fp)

C5_RootDone ==
    RootCount = MaxRoot =>
        /\ RangeLen(Unwrap(entities[GrowSlot].state.children)) >= MaxRoot
        /\ \A k \in 0..(MaxRoot - 1) :
              ReadEntity(GrowSlot, <<k>>) = Some(RootValue(k))

ChildNode ==
    NodeOf(field_states, Unwrap(entities[GrowSlot].state.children).start)

C5_ChildDone ==
    ChildCount = MaxChild =>
        /\ RangeLen(Unwrap(ChildNode.children)) >= MaxChild
        /\ NodeOf(field_states, Unwrap(ChildNode.children).start).value
              = Some(ChildValue(0))
        /\ NodeOf(field_states,
                  Unwrap(ChildNode.children).start + MaxChild - 1).value
              = Some(ChildValue(MaxChild - 1))

C6_UpdateAppliesInOrder ==
    [][LastIsOk("update")' =>
          \A fp \in ProbePaths :
              ReadEntityNext(last'.slot, fp) =
                  IF IsSome(LastWrite(last'.delta, fp))
                  THEN LastWrite(last'.delta, fp)
                  ELSE ReadEntity(last'.slot, fp)]_vars

\* C7: right after clear(), the allocator's free pool is the one range
\* [0, ArenaSize) of a new container.
C7_ClearFreesArena ==
    last.op = "clear" => field_states_alloc = RangeAllocNew

\* C8: right after clear(), is_empty() holds, get(i) is None for every slot
\* and get_baseline(c) is None for every class.
C8_ClearEmptiesMaps ==
    last.op = "clear" =>
        /\ IsEmpty(Container)
        /\ \A i \in Slots : Get(Container, i) = None
        /\ \A k \in Classes : GetBaseline(Container, k) = None

\* a clear() of a container that had created an entity
C8_Witness ==
    last.op = "clear" /\ \E k \in Classes : baseline_fetches[k] > 0

C10_ExhaustionIsReturned ==
    last.err = "alloc" => (last.result = "err" /\ status = "ok")

\* C11: handle_delete(i) on a populated slot returns the entity of slot i and
\* leaves get(i) None, every other slot's entity, the baseline cache and the
\* arena as they were; a LEAVE record changes nothing in the container.
C11_Delete ==
    last'.op = "delete" =>
        /\ last'.ret = entities[last'.slot]
        /\ Get(Container', last'.slot) = None
        /\ DOMAIN entities' = DOMAIN entities \ {last'.slot}
        /\ \A j \in DOMAIN entities' : entities'[j] = entities[j]
        /\ UNCHANGED <<baseline_entities, field_states, field_states_alloc>>

C11_Leave ==
    last'.op = "leave" =>
        UNCHANGED <<entities, baseline_entities, field_states,
                    field_states_alloc>>

C11_DeleteRemovesOne == [][C11_Delete /\ C11_Leave]_vars

\* a delete of one of two populated slots, a baseline being cached
C11_Witness ==
    /\ last.op = "delete" /\ Cardinality(DOMAIN entities) = 1
    /\ DOMAIN baseline_entities # {}

\* C12 (as amended): before the field-path block handle_create consumes
\* class_id in entity_classes.bits bits, a serial number of 17 bits
\* (NUM_SERIAL_NUM_BITS) and one varint32; a header laid out so is read back
\* as written and leaves the reader at the field-path block.
C12_SerialIs17Bits ==
    last.op = "create_header" =>
        /\ last.pos = last.bits + 17 + 8 * last.varint_bytes
        /\ last.class_id = last.written.class_id
        /\ last.layout = 17 =>
              /\ last.serial = last.written.serial
              /\ last.unknown = Groups(last.written.unknown)
              /\ last.pos = last.header_len
              /\ ~last.overflowed

\* a header with a serial that needs all 17 bits and a varint of three bytes
C12_Witness ==
    /\ last.op = "create_header" /\ last.layout = 17
    /\ last.serial = 131071 /\ last.varint_bytes = 3

\* C12 (as claimed): the serial number read is 10 bits wide.
C12_SerialIs10Bits ==
    last.op = "create_header" =>
        last.pos = last.bits + 10 + 8 * last.varint_bytes

\* C13: handle_to_index(i | (s << 14)) is i for a slot index i below 16384
\* and a serial s below 1024; is_handle_valid is false of 0x00FFFFFF and
\* true of every handle below it.
C13_HandleHelpers ==
    /\ last.op = "handle_to_index" =>
          /\ last.handle = last.index + 16384 * last.serial
          /\ last.ret = last.index
    /\ last.op = "is_handle_valid" =>
          (last.ret <=> last.handle < 16777215)

\* the largest slot index under the largest serial
C13_Witness ==
    /\ last.op = "handle_to_index"
    /\ last.index = 16383 /\ last.serial = 1023 /\ last.ret = 16383

\* the children ranges stored in the nodes reachable from an entity's root
ChildRanges(node) ==
    IF node.children = None THEN {} ELSE {Unwrap(node.children)}

RangesBelow(buf, ranges) ==
    UNION { ChildRanges(NodeOf(buf, x)) :
              x \in FreeIndices(ranges) \cap (0..(ArenaSize - 1)) }

RECURSIVE ReachableRanges(_, _)
ReachableRanges(buf, ranges) ==
    IF RangesBelow(buf, ranges) \subseteq ranges THEN ranges
    ELSE ReachableRanges(buf, ranges \cup RangesBelow(buf, ranges))

EntityRanges(entity) ==
    ReachableRanges(field_states, ChildRanges(entity.state))

\* ... from a live entity or a cached baseline entity
LiveRanges ==
    UNION ({ EntityRanges(entities[i]) : i \in DOMAIN entities } \cup
           { EntityRanges(baseline_entities[k]) : k \in DOMAIN baseline_entities })

\* C14: every children range reachable from a live entity or from a cached
\* baseline entity is reserved in field_states_alloc: none of its indices is
\* free.
C14_RangesReserved ==
    status = "ok" =>
        \A r \in LiveRanges :
            RangeSet(r) \cap FreeIndices(field_states_alloc) = {}

\* C15: after a grow step for component i, the node's children range is
\* longer than i, so the slot start + i that the walk descends into lies in
\* that range and in the arena.
C15_GrownRangeHoldsComponent ==
    \A n \in 1..Len(last.log) :
        last.log[n].kind = "grow" =>
            /\ RangeLen(last.log[n].range) > last.log[n].i
            /\ last.log[n].w < last.log[n].range.end
            /\ last.log[n].w < ArenaSize

\* C16: the delta of a CREATE or an UPDATE of slot i changes what is read at
\* no path of another live entity.
C16_OtherEntitiesKeepValues ==
    [][(LastIsOk("update")' \/ LastIsOk("create")') =>
          \A j \in DOMAIN entities \ {last'.slot} : \A fp \in ProbePaths :
              ReadEntityNext(j, fp) = ReadEntity(j, fp)]_vars

\* C17: every range that set allocates, for a node without children or for
\* a growth, holds FieldState::default() in each of its slots at that moment.
C17_AllocatedRangesAreDefault ==
    \A n \in 1..Len(last.log) : last.log[n].clean

\* C18: every index reserved in field_states_alloc lies in a range reachable
\* from a live entity or a cached baseline entity; the ranges of a deleted
\* entity do not stay reserved.
C18_NoArenaLeak ==
    status = "ok" =>
        (0..(ArenaSize - 1)) \ FreeIndices(field_states_alloc)
            \subseteq FreeIndices(LiveRanges)

\* what parsing the baseline of the last call's class alone makes of the
\* container
BaselineAlone ==
    EntityParse(FetchBaseline(Container, last'.class),
                NewEntity(last'.slot, SerializerOf(last'.class)),
                instance_baseline[last'.class], 0).c

C19_Overflowed ==
    /\ last'.op = "create"
    /\ ~last'.cached
    /\ last'.class \in baseline_overflows
    /\ status' = "ok"

\* C19: a handle_create of a class that is not cached and whose transient
\* baseline reader has overflowed after the baseline parse returns a BitReader
\* error, inserts no entry for the class into baseline_entities, does not
\* parse the delta (the arena and the allocator are as the baseline parse
\* left them) and leaves entities unchanged.
C19_OverflowIsReturned ==
    [][C19_Overflowed =>
          /\ last'.result = "err"
          /\ last'.err = "bitreader"
          /\ baseline_entities' = baseline_entities
          /\ last'.class \notin DOMAIN baseline_entities'
          /\ entities' = entities
          /\ field_states' = BaselineAlone.field_states
          /\ field_states_alloc' = BaselineAlone.field_states_alloc]_vars

C19_Witness ==
    /\ last.op = "create"
    /\ last.result = "err"
    /\ last.err = "bitreader"
    /\ last.delta # <<>>
    /\ last.slot \in DOMAIN entities
    /\ entities[last.slot].serializer # SerializerOf(last.class)

\* the field that the schema names for a path, written out path by path
C20_FieldOf(fp) ==
    CASE fp = <<0>> -> "items"
      [] fp = <<1>> -> "health"
      [] fp = <<3>> -> "tags"
      [] Len(fp) = 2 /\ fp[1] = 2 /\ fp[2] = 0 -> "x"
      [] Len(fp) = 2 /\ fp[1] = 2 /\ fp[2] = 1 -> "y"
      [] Len(fp) = 2 /\ fp[1] = 3 -> "tag"
      [] Len(fp) = 3 /\ fp[1] = 0 /\ fp[3] = 0 -> "id"
      [] Len(fp) = 3 /\ fp[1] = 0 /\ fp[3] = 1 -> "level"

\* C20: a path is decoded by the field found from children[fp[0]] by taking
\* children[0] of a dynamic array (whatever fp[k] is) and children[fp[k]] of
\* any other field, and the decoded value is stored under every component of
\* the path: [0, 3, 0] is decoded by `id` and read back at [0, 3, 0].
C20_SchemaResolution ==
    (last.op = "update" /\ last.result = "ok" /\ last.delta # <<>>) =>
        \A k \in 1..Len(last.delta) :
            /\ last.delta[k].fv.decoder = C20_FieldOf(last.delta[k].fp)
            /\ LastWrite(last.delta, last.delta[k].fp)
                   = ReadEntity(last.slot, last.delta[k].fp)

C20_Witness ==
    /\ last.op = "update"
    /\ last.result = "ok"
    /\ \E k \in 1..Len(last.delta) : last.delta[k].fp = <<0, 3, 0>>
    /\ ReadEntity(GrowSlot, <<0, 3, 0>>) = Some([decoder |-> "id", payload |-> 42])
    /\ ReadEntity(GrowSlot, <<0, 3, 1>>) = Some([decoder |-> "level", payload |-> 7])
    /\ ReadEntity(GrowSlot, <<2, 1>>) = Some([decoder |-> "y", payload |-> 7])

\* the integer that a key spells, written out key by key; the other keys
\* spell none
C21_Spelled ==
    { <<"0">>, <<"1">>, <<"0", "2">>, <<"+", "1">>, <<"-", "1">>, <<"7">> }

C21_IdOf(key) ==
    CASE key = <<"0">> -> 0
      [] key = <<"1">> -> 1
      [] key = <<"0", "2">> -> 2
      [] key = <<"+", "1">> -> 1
      [] key = <<"-", "1">> -> -1
      [] key = <<"7">> -> 7

C21_HasKeys(items) == \A k \in 1..Len(items) : items[k].string # None

\* item k carries a class id below n
C21_InRange(items, k, n) ==
    /\ Unwrap(items[k].string) \in C21_Spelled
    /\ C21_IdOf(Unwrap(items[k].string)) \in 0..(n - 1)

\* the items that carry class id `id`
C21_ItemsOf(items, id) ==
    { k \in 1..Len(items) : C21_IdOf(Unwrap(items[k].string)) = id }

C21_Expected(items, id) ==
    IF C21_ItemsOf(items, id) # {}
    THEN items[CHOOSE k \in C21_ItemsOf(items, id) :
                   \A j \in C21_ItemsOf(items, id) : k >= j].user_data
    ELSE IF id < Len(strs) THEN GetData(strs, id)
    ELSE None

\* the first item whose key spells no integer, 0 if there is none
C21_FirstBad(items) ==
    IF \A k \in 1..Len(items) : Unwrap(items[k].string) \in C21_Spelled THEN 0
    ELSE CHOOSE k \in 1..Len(items) :
             /\ Unwrap(items[k].string) \notin C21_Spelled
             /\ \A j \in 1..(k - 1) : Unwrap(items[j].string) \in C21_Spelled

\* every key a class id of the table: update succeeds, each entry holds the
\* data of the last item of its id or what it held before
C21_Applies ==
    (/\ last'.op = "instance_update"
     /\ C21_HasKeys(last'.items)
     /\ \A k \in 1..Len(last'.items) :
            C21_InRange(last'.items, k, Max(Len(strs), last'.classes)))
        => /\ last'.result = "ok"
           /\ \A id \in 0..(Len(strs') - 1) :
                  GetData(strs', id) = C21_Expected(last'.items, id)

C21_Length ==
    last'.op = "instance_update"
        => Len(strs') >= last'.classes /\ Len(strs') >= Len(strs)

\* some key spells no integer and the items before it carry class ids of
\* the table
C21_BadAfterGood ==
    (/\ last'.op = "instance_update"
     /\ C21_HasKeys(last'.items)
     /\ C21_FirstBad(last'.items) # 0
     /\ \A k \in 1..(C21_FirstBad(last'.items) - 1) :
            C21_InRange(last'.items, k, Max(Len(strs), last'.classes)))
        => last'.result = "ParseIntError"

\* some key spells no integer
C21_Bad ==
    (/\ last'.op = "instance_update"
     /\ C21_HasKeys(last'.items)
     /\ C21_FirstBad(last'.items) # 0)
        => last'.result = "ParseIntError"

====
